---- MODULE Spec2Model ----
(***************************************************************************)
(* Model of bounty-2/policy.py: BollingerBandsPolicy.                      *)
(*                                                                         *)
(* Numbers.  The policy computes with floats (numpy) and Decimals.  The    *)
(* model computes with exact values:                                       *)
(*   - a float is a record [p, q, d, den] standing for                     *)
(*         (p + q * sqrt(d)) / den,   den > 0, d >= 0,                      *)
(*     which is closed under everything the band computation does on       *)
(*     integer prices (mean, population standard deviation, +, -, scaling  *)
(*     by a rational multiplier);                                          *)
(*   - a correlation coefficient is [nan, c, v] standing for c / sqrt(v),  *)
(*     or for NaN when nan is TRUE;                                        *)
(*   - a holding is a whole number of tokens and a traded quantity an      *)
(*     integer number of tenths of a token.                                *)
(* Rounding of the float operations is modelled where it decides a result: *)
(* the mean of a series of equal values (mean_error, np_corrcoef).         *)
(***************************************************************************)
EXTENDS Integers, Sequences, FiniteSets, TLC

VARIABLES
    \* configuration, fixed by __init__
    pool,               \* self.pool
    window,             \* self.window
    std_dev_multiplier, \* self.std_dev_multiplier, in halves
    corr_window,        \* self.corr_window
    direction,          \* self.direction
    \* float64 arithmetic on the values a run observes (np.array(..., dtype=float)):
    \* for each price and each liquidity, the sign of value - mean of corr_window
    \* copies of it as np.corrcoef computes that mean; 0 where the sum is exact
    mean_error,
    \* policy state
    price_window,       \* self.price_window  (deque(maxlen=window))
    price_hist,         \* self.price_hist
    liquidity,          \* self.liquidity
    upper_band,         \* self.upper_band
    lower_band,         \* self.lower_band
    correlation_hist,   \* self.correlation_hist
    \* self.agent: agent.quantity(token), in whole tokens.  Trades are executed
    \* by the runner, outside the policy; a run keeps the holdings it starts with.
    agent,
    \* the last call of predict: its input, its locals and what it returned
    steps,              \* number of completed calls of predict
    obs,                \* the observation of the last call
    bands,              \* (lower_band, middle_band, upper_band) at line 101
    correlation,        \* correlation at line 102
    actions,            \* the list predict returned
    \* the calls of calculate_bollinger_bands and of calculate_correlation since
    \* the last predict began: what each read, returned and logged
    band_calls,
    corr_calls,
    \* history variables: the step in which each history entry was appended
    price_step,
    liquidity_step

vars == <<pool, window, std_dev_multiplier, corr_window, direction, mean_error,
          price_window, price_hist, liquidity, upper_band, lower_band,
          correlation_hist, steps, obs, agent, bands, correlation, actions,
          band_calls, corr_calls, price_step, liquidity_step>>

config == <<pool, window, std_dev_multiplier, corr_window, direction, agent, mean_error>>

-----------------------------------------------------------------------------
(* Bounds of the model *)

MaxSteps == 2        \* calls of predict in a run
MaxWindow == 3       \* window is 2..MaxWindow
MaxCorrWindow == 3   \* corr_window is 2..MaxCorrWindow

Prices == {1, 2}             \* observed prices
Liquidities == {1, 2}        \* observed liquidities
HoldingValues == {0, 1}      \* tokens the agent holds of each kind
Multipliers == {1, 4}        \* std_dev_multiplier in halves: 0.5 and the default 2.0
Directions == {-1, 0, 1}     \* short only, both, long only

Pools == {"P", "Q"}
Tokens == <<"token0", "token1">>

-----------------------------------------------------------------------------
(* Exact arithmetic *)

RECURSIVE Sum(_)
Sum(s) == IF s = <<>> THEN 0 ELSE Head(s) + Sum(Tail(s))

RECURSIVE SumProd(_, _)
SumProd(s, t) == IF s = <<>> THEN 0 ELSE Head(s) * Head(t) + SumProd(Tail(s), Tail(t))

Sgn(x) == IF x > 0 THEN 1 ELSE IF x < 0 THEN -1 ELSE 0

\* the sign of A + B * sqrt(d)
SurdSign(A, B, d) ==
    LET sa == Sgn(A)
        sb == IF d = 0 THEN 0 ELSE Sgn(B)
    IN  IF sb = 0 \/ sa = sb THEN sa
        ELSE IF sa = 0 THEN sb
        ELSE IF A * A > B * B * d THEN sa
        ELSE IF A * A < B * B * d THEN sb
        ELSE 0

Float(x) == [p |-> x, q |-> 0, d |-> 0, den |-> 1]

Zero == Float(0)

\* x + y and x - y, for x and y over the same square root
AddF(x, y) ==
    [p |-> x.p * y.den + y.p * x.den,
     q |-> x.q * y.den + y.q * x.den,
     d |-> IF x.q # 0 THEN x.d ELSE y.d,
     den |-> x.den * y.den]

SubF(x, y) ==
    [p |-> x.p * y.den - y.p * x.den,
     q |-> x.q * y.den - y.q * x.den,
     d |-> IF x.q # 0 THEN x.d ELSE y.d,
     den |-> x.den * y.den]

\* x * (kn / kd)
ScaleF(x, kn, kd) ==
    [p |-> x.p * kn, q |-> x.q * kn, d |-> x.d, den |-> x.den * kd]

SignF(x) == SurdSign(x.p, x.q, x.d)

LessF(x, y) == SignF(SubF(x, y)) < 0

\* n^2 times the population variance of s
VarianceN2(s) == Len(s) * SumProd(s, s) - Sum(s) * Sum(s)

np_mean(s) == [p |-> Sum(s), q |-> 0, d |-> 0, den |-> Len(s)]

np_std(s) == [p |-> 0, q |-> 1, d |-> VarianceN2(s), den |-> Len(s)]

\* the covariance over the variance of x alone (the regression slope)
np_corrcoef_slope(x, y) ==
    LET n == Len(x)
        c == n * SumProd(x, y) - Sum(x) * Sum(y)
        v == VarianceN2(x) * VarianceN2(x)
    IN  IF VarianceN2(x) * VarianceN2(y) = 0 THEN [nan |-> TRUE, c |-> 0, v |-> 0]
        ELSE [nan |-> FALSE, c |-> c, v |-> v]

\* the signs a rounded mean can leave, and values whose sums are all exact
MeanErrors == {-1, 0, 1}
Exact == [price |-> [v \in {} |-> 0], liquidity |-> [v \in {} |-> 0]]

\* the sign of s[i] - np.mean(s) for a series s of equal values, in float64
MeanError(e, s) == IF s[1] \in DOMAIN e THEN e[s[1]] ELSE 0

\* np.corrcoef(x, y)[0, 1] of prices x and liquidities y.  np.cov subtracts
\* each series' float64 mean and np.corrcoef divides the covariance by both
\* standard deviations, with no test for zero variance: a series of equal
\* values gives deviations that are all 0 when its mean is exact (0/0, NaN), or
\* all the same rounding residue when it is not.  Two such residues correlate
\* as +1 or -1; a residue against a varying series gives a negligible
\* coefficient, written 0.
np_corrcoef(x, y) ==
    LET n == Len(x)
        c == n * SumProd(x, y) - Sum(x) * Sum(y)
        v == VarianceN2(x) * VarianceN2(y)
        dx == IF VarianceN2(x) = 0 THEN MeanError(mean_error.price, x) ELSE 1
        dy == IF VarianceN2(y) = 0 THEN MeanError(mean_error.liquidity, y) ELSE 1
    IN  IF v # 0 THEN [nan |-> FALSE, c |-> c, v |-> v]
        ELSE IF dx = 0 \/ dy = 0 THEN [nan |-> TRUE, c |-> 0, v |-> 0]
        ELSE IF VarianceN2(x) = 0 /\ VarianceN2(y) = 0
             THEN [nan |-> FALSE, c |-> dx * dy, v |-> 1]
        ELSE [nan |-> FALSE, c |-> 0, v |-> 1]

\* the float 0.0 as a correlation
Corr0 == [nan |-> FALSE, c |-> 0, v |-> 1]

\* r < -0.5 (False for NaN, as every comparison with NaN)
BelowMinusHalf(r) == ~r.nan /\ r.c < 0 /\ 4 * r.c * r.c > r.v

\* the last k elements of s: s[-k:] for k > 0
LastK(s, k) == IF Len(s) <= k THEN s ELSE SubSeq(s, Len(s) - k + 1, Len(s))

-----------------------------------------------------------------------------
(* The policy *)

\* a buffer that starts over when it is full
deque_append_reset(dq, x, n) ==
    IF Len(dq) < n THEN Append(dq, x) ELSE <<x>>

\* a deque without maxlen: nothing is evicted
deque_append_unbounded(dq, x, n) == Append(dq, x)

\* deque(maxlen=n).append(x)
deque_append(dq, x, n) ==
    IF Len(dq) < n THEN Append(dq, x) ELSE Append(Tail(dq), x)

\* "<=" for "<" in the test for a full window
calculate_bollinger_bands_le(pw, ub, lb) ==
    IF Len(pw) <= window
    THEN [ret |-> <<Zero, Zero, Zero>>, upper_band |-> ub, lower_band |-> lb]
    ELSE LET middle == np_mean(pw)
             width == ScaleF(np_std(pw), std_dev_multiplier, 2)
         IN  [ret |-> <<SubF(middle, width), middle, AddF(middle, width)>>,
              upper_band |-> Append(ub, AddF(middle, width)),
              lower_band |-> Append(lb, SubF(middle, width))]

\* the upper band is logged, the lower band is not
calculate_bollinger_bands_upper_only(pw, ub, lb) ==
    IF Len(pw) < window
    THEN [ret |-> <<Zero, Zero, Zero>>, upper_band |-> ub, lower_band |-> lb]
    ELSE LET middle == np_mean(pw)
             width == ScaleF(np_std(pw), std_dev_multiplier, 2)
         IN  [ret |-> <<SubF(middle, width), middle, AddF(middle, width)>>,
              upper_band |-> Append(ub, AddF(middle, width)),
              lower_band |-> lb]

calculate_sma(pw) == np_mean(pw)

\* returns the triple and the two diagnostic lists
calculate_bollinger_bands(pw, ub, lb) ==
    IF Len(pw) < window
    THEN [ret |-> <<Zero, Zero, Zero>>, upper_band |-> ub, lower_band |-> lb]
    ELSE LET middle == calculate_sma(pw)
             width == ScaleF(np_std(pw), std_dev_multiplier, 2)
             upper == AddF(middle, width)
             lower == SubF(middle, width)
         IN  [ret |-> <<lower, middle, upper>>,
              upper_band |-> Append(ub, upper),
              lower_band |-> Append(lb, lower)]

\* the default is logged like a computed coefficient
calculate_correlation_logs_default(ph, lq, ch) ==
    IF Len(ph) >= corr_window /\ Len(lq) >= corr_window
    THEN [ret |-> np_corrcoef(LastK(ph, corr_window), LastK(lq, corr_window)),
          correlation_hist |->
              Append(ch, np_corrcoef(LastK(ph, corr_window), LastK(lq, corr_window)))]
    ELSE [ret |-> Corr0, correlation_hist |-> Append(ch, Corr0)]

\* returns the coefficient and the diagnostic list
calculate_correlation(ph, lq, ch) ==
    IF Len(ph) >= corr_window /\ Len(lq) >= corr_window
    THEN LET prices == LastK(ph, corr_window)
             liq == LastK(lq, corr_window)
         IN  IF Len(prices) = Len(liq)
             THEN LET corr == np_corrcoef(prices, liq)
                  IN  [ret |-> corr, correlation_hist |-> Append(ch, corr)]
             ELSE [ret |-> Corr0, correlation_hist |-> ch]
    ELSE [ret |-> Corr0, correlation_hist |-> ch]

\* obs.pool_tokens(pool)
pool_tokens(o, pl) == Tokens

\* the product truncated to whole tokens
TimesDecimal03_truncated(holding) == 10 * ((3 * holding) \div 10)

\* agent.quantity(token) * Decimal("0.3"): the holding is a number of tokens,
\* the product a number of tenths of a token
TimesDecimal03(holding) == 3 * holding

\* signal is the rule that built the trade ("# Buy action", "# Sell action");
\* it is not a field of the trade object
UniswapV3Trade(signal, pl, quantities) ==
    [signal |-> signal, pool |-> pl, quantities |-> quantities]

\* the policy state the update touches
History ==
    [price_window |-> price_window, price_hist |-> price_hist,
     liquidity |-> liquidity, price_step |-> price_step,
     liquidity_step |-> liquidity_step]

\* an update that forgets the liquidity
update_without_liquidity(h, price, liq, n) ==
    [price_window |-> IF Len(h.price_window) < window
                      THEN Append(h.price_window, price)
                      ELSE Append(Tail(h.price_window), price),
     price_hist |-> Append(h.price_hist, price),
     liquidity |-> h.liquidity,
     price_step |-> Append(h.price_step, n),
     liquidity_step |-> h.liquidity_step]

\* "update data history" (lines 82-84, and again lines 96-98), in call n of predict
update(h, price, liq, n) ==
    [price_window |-> deque_append(h.price_window, price, window),
     price_hist |-> Append(h.price_hist, price),
     liquidity |-> Append(h.liquidity, liq),
     price_step |-> Append(h.price_step, n),
     liquidity_step |-> Append(h.liquidity_step, n)]

\* the buy signal closed to a policy that trades both ways
BuySignal_long_only(price, lower, corr) ==
    direction > 0 /\ LessF(Float(price), lower) /\ BelowMinusHalf(corr)

\* the buy signal with the comparison against the band turned round
BuySignal_above(price, lower, corr) ==
    direction >= 0 /\ LessF(lower, Float(price)) /\ BelowMinusHalf(corr)

\* the buy signal of predict (lines 112-120)
BuySignal(price, lower, corr) ==
    direction >= 0 /\ LessF(Float(price), lower) /\ BelowMinusHalf(corr)

\* the sell signal closed to a policy that trades both ways
SellSignal_short_only(price, upper, corr) ==
    direction < 0 /\ LessF(upper, Float(price)) /\ BelowMinusHalf(corr)

\* the sell signal without the correlation gate
SellSignal_ungated(price, upper, corr) ==
    direction <= 0 /\ LessF(upper, Float(price))

\* the sell signal with the comparison against the band turned round
SellSignal_below(price, upper, corr) ==
    direction <= 0 /\ LessF(Float(price), upper) /\ BelowMinusHalf(corr)

\* the sell signal of predict (lines 123-131)
SellSignal(price, upper, corr) ==
    direction <= 0 /\ LessF(upper, Float(price)) /\ BelowMinusHalf(corr)

\* the list predict builds once the window is full (lines 109-133)
decide(price, b, corr, ag, tokens) ==
    (IF BuySignal(price, b[1], corr)
     THEN <<UniswapV3Trade("buy", pool, <<0, TimesDecimal03(ag[tokens[2]])>>)>>
     ELSE <<>>)
    \o
    (IF SellSignal(price, b[3], corr)
     THEN <<UniswapV3Trade("sell", pool, <<TimesDecimal03(ag[tokens[1]]), 0>>)>>
     ELSE <<>>)

\* what a call appended to a diagnostic list
Logged(before, after) == SubSeq(after, Len(before) + 1, Len(after))

\* the record of a call of calculate_bollinger_bands on window pw that found
\* the lists ub, lb and returned b
BandCall(by, pw, ub, lb, b) ==
    [by |-> by, price_window |-> pw, ret |-> b.ret,
     logged_upper |-> Logged(ub, b.upper_band),
     logged_lower |-> Logged(lb, b.lower_band)]

\* the record of a call of calculate_correlation on histories ph, lq that found
\* the list ch and returned c
CorrCall(by, ph, lq, ch, c) ==
    [by |-> by, price_hist |-> ph, liquidity |-> lq, ret |-> c.ret,
     logged |-> Logged(ch, c.correlation_hist)]

\* predict with the bands and the correlation computed before the update
predict_stale(o) ==
    \E first \in {o.pools[1]}, tokens \in {pool_tokens(o, pool)} :
    \E price \in {o.price[pool]}, liq \in {o.liquidity[first]} :
    \E b1 \in {calculate_bollinger_bands(price_window, upper_band, lower_band)},
       c1 \in {calculate_correlation(price_hist, liquidity, correlation_hist)} :
    \E h1 \in {update(History, price, liq, steps + 1)} :
    \E b2 \in {calculate_bollinger_bands(h1.price_window, b1.upper_band, b1.lower_band)},
       c2 \in {calculate_correlation(h1.price_hist, h1.liquidity, c1.correlation_hist)} :
    \E h2 \in {update(h1, price, liq, steps + 1)} :
        /\ price_window' = h2.price_window
        /\ price_hist' = h2.price_hist
        /\ liquidity' = h2.liquidity
        /\ price_step' = h2.price_step
        /\ liquidity_step' = h2.liquidity_step
        /\ upper_band' = b2.upper_band
        /\ lower_band' = b2.lower_band
        /\ correlation_hist' = c2.correlation_hist
        /\ steps' = steps + 1
        /\ obs' = o
        /\ bands' = b2.ret
        /\ correlation' = c2.ret
        /\ actions' = IF Len(h2.price_window) < window
                      THEN <<>>
                      ELSE decide(price, b2.ret, c2.ret, agent, tokens)
        /\ band_calls' =
              <<BandCall("predict", price_window, upper_band, lower_band, b1),
                BandCall("predict", h1.price_window, b1.upper_band, b1.lower_band, b2)>>
        /\ corr_calls' =
              <<CorrCall("predict", price_hist, liquidity, correlation_hist, c1),
                CorrCall("predict", h1.price_hist, h1.liquidity, c1.correlation_hist, c2)>>
        /\ UNCHANGED config

\* Each intermediate value of the call is bound once, in the order the code
\* computes it.
predict(o) ==
    \E first \in {o.pools[1]}, tokens \in {pool_tokens(o, pool)} :
    \E price \in {o.price[pool]}, liq \in {o.liquidity[first]} :
    \* lines 81-88
    \E h1 \in {update(History, price, liq, steps + 1)} :
    \E b1 \in {calculate_bollinger_bands(h1.price_window, upper_band, lower_band)},
       c1 \in {calculate_correlation(h1.price_hist, h1.liquidity, correlation_hist)} :
    \* lines 95-102
    \E h2 \in {update(h1, price, liq, steps + 1)} :
    \E b2 \in {calculate_bollinger_bands(h2.price_window, b1.upper_band, b1.lower_band)},
       c2 \in {calculate_correlation(h2.price_hist, h2.liquidity, c1.correlation_hist)} :
        /\ price_window' = h2.price_window
        /\ price_hist' = h2.price_hist
        /\ liquidity' = h2.liquidity
        /\ price_step' = h2.price_step
        /\ liquidity_step' = h2.liquidity_step
        /\ upper_band' = b2.upper_band
        /\ lower_band' = b2.lower_band
        /\ correlation_hist' = c2.correlation_hist
        /\ steps' = steps + 1
        /\ obs' = o
        /\ bands' = b2.ret
        /\ correlation' = c2.ret
        \* lines 105-133
        /\ actions' = IF Len(h2.price_window) < window
                      THEN <<>>
                      ELSE decide(price, b2.ret, c2.ret, agent, tokens)
        /\ band_calls' =
              <<BandCall("predict", h1.price_window, upper_band, lower_band, b1),
                BandCall("predict", h2.price_window, b1.upper_band, b1.lower_band, b2)>>
        /\ corr_calls' =
              <<CorrCall("predict", h1.price_hist, h1.liquidity, correlation_hist, c1),
                CorrCall("predict", h2.price_hist, h2.liquidity, c1.correlation_hist, c2)>>
        /\ UNCHANGED config

-----------------------------------------------------------------------------
(* Observations and runs *)

\* the pool lists the environment can hand over: the configured pool alone,
\* or a second pool listed before it
PoolLists == {<<"P">>, <<"Q", "P">>}

Range(s) == {s[i] : i \in DOMAIN s}

\* an observation knows the price and the liquidity of each of its pools
ObservationsOf(lists, prices, liquidities) ==
    UNION {[pools : {pl}, price : [Range(pl) -> prices],
            liquidity : [Range(pl) -> liquidities]] : pl \in lists}

Observations == ObservationsOf(PoolLists, Prices, Liquidities)

Holdings == [{"token0", "token1"} -> HoldingValues]

NoObs == [pools |-> <<>>]

InitState ==
    /\ price_window = <<>>
    /\ price_hist = <<>>
    /\ liquidity = <<>>
    /\ upper_band = <<>>
    /\ lower_band = <<>>
    /\ correlation_hist = <<>>
    /\ steps = 0
    /\ obs = NoObs
    /\ bands = <<Zero, Zero, Zero>>
    /\ correlation = Corr0
    /\ actions = <<>>
    /\ band_calls = <<>>
    /\ corr_calls = <<>>
    /\ price_step = <<>>
    /\ liquidity_step = <<>>

Init ==
    /\ pool = "P"
    /\ mean_error = Exact
    /\ window \in 2..MaxWindow
    /\ std_dev_multiplier \in Multipliers
    /\ corr_window \in 2..MaxCorrWindow
    /\ direction \in Directions
    /\ agent \in Holdings
    /\ InitState

Predict ==
    /\ steps < MaxSteps
    /\ \E o \in Observations : predict(o)

Next == Predict

Spec == Init /\ [][Next]_vars

-----------------------------------------------------------------------------
(* A policy with the default window of 20, fed a quiet market and a dip *)

DefaultWindow == 20
DefaultCorrWindow == 20
DefaultMultiplier == 2 * 2   \* 2.0, in halves

WarmupSteps == 10

Observation1(p, l) ==
    [pools |-> <<"P">>, price |-> [x \in {"P"} |-> p], liquidity |-> [x \in {"P"} |-> l]]

WarmupObservations == {Observation1(2, 1), Observation1(2, 2), Observation1(1, 2)}

InitWarmup ==
    /\ pool = "P"
    /\ mean_error = Exact
    /\ window = DefaultWindow
    /\ std_dev_multiplier = DefaultMultiplier
    /\ corr_window = DefaultCorrWindow
    /\ direction \in Directions
    /\ agent = [t \in {"token0", "token1"} |-> 1]
    /\ InitState

PredictWarmup ==
    /\ steps < WarmupSteps
    /\ \E o \in WarmupObservations : predict(o)

NextWarmup == PredictWarmup

SpecWarmup == InitWarmup /\ [][NextWarmup]_vars

-----------------------------------------------------------------------------
(* Decision scenario A: window 3, multiplier 2.0, prices among 7, 9, 10, 11 *)

ScenarioSteps == 4
ScenarioPrices == {7, 9, 10, 11}

InitScenario ==
    /\ pool = "P"
    /\ mean_error = Exact
    /\ window = 3
    /\ std_dev_multiplier = DefaultMultiplier
    /\ corr_window = 3
    /\ direction \in Directions
    /\ agent = [t \in {"token0", "token1"} |-> 1]
    /\ InitState

PredictScenario ==
    /\ steps < ScenarioSteps
    /\ \E p \in ScenarioPrices, l \in Liquidities : predict(Observation1(p, l))

NextScenario == PredictScenario

SpecScenario == InitScenario /\ [][NextScenario]_vars

-----------------------------------------------------------------------------
(* The runner calls predict on every tick until the run ends *)

SpecFair == Init /\ [][Next]_vars /\ WF_vars(Next)

-----------------------------------------------------------------------------
(* A caller that also calls the two computations itself, between the steps *)

MaxCalls == 2        \* direct calls of each computation between two steps

DirectCalls(calls) == Cardinality({i \in DOMAIN calls : calls[i].by = "caller"})

InitCalls ==
    /\ pool = "P"
    /\ mean_error = Exact
    /\ window \in 2..MaxWindow
    /\ std_dev_multiplier = 1
    /\ corr_window \in 2..MaxCorrWindow
    /\ direction = 0
    /\ agent = [t \in {"token0", "token1"} |-> 1]
    /\ InitState

PredictCalls ==
    /\ steps < MaxSteps
    /\ \E o \in ObservationsOf({<<"P">>}, Prices, Liquidities) : predict(o)

\* the window is drained while it is read
CallBands_draining ==
    /\ DirectCalls(band_calls) < MaxCalls
    /\ \E b \in {calculate_bollinger_bands(price_window, upper_band, lower_band)} :
        /\ upper_band' = b.upper_band
        /\ lower_band' = b.lower_band
        /\ price_window' = <<>>
        /\ band_calls' = Append(band_calls,
               BandCall("caller", price_window, upper_band, lower_band, b))
    /\ UNCHANGED <<config, price_hist, liquidity, correlation_hist, steps, obs, bands,
                   correlation, actions, corr_calls, price_step, liquidity_step>>

\* self.calculate_bollinger_bands()
CallBands ==
    /\ DirectCalls(band_calls) < MaxCalls
    /\ \E b \in {calculate_bollinger_bands(price_window, upper_band, lower_band)} :
        /\ upper_band' = b.upper_band
        /\ lower_band' = b.lower_band
        /\ band_calls' = Append(band_calls,
               BandCall("caller", price_window, upper_band, lower_band, b))
    /\ UNCHANGED <<config, price_window, price_hist, liquidity, correlation_hist, steps,
                   obs, bands, correlation, actions, corr_calls, price_step,
                   liquidity_step>>

\* self.calculate_correlation()
CallCorrelation ==
    /\ DirectCalls(corr_calls) < MaxCalls
    /\ \E c \in {calculate_correlation(price_hist, liquidity, correlation_hist)} :
        /\ correlation_hist' = c.correlation_hist
        /\ corr_calls' = Append(corr_calls,
               CorrCall("caller", price_hist, liquidity, correlation_hist, c))
    /\ UNCHANGED <<config, price_window, price_hist, liquidity, upper_band, lower_band,
                   steps, obs, bands, correlation, actions, band_calls, price_step,
                   liquidity_step>>

NextCalls == PredictCalls \/ CallBands \/ CallCorrelation

SpecCalls == InitCalls /\ [][NextCalls]_vars

-----------------------------------------------------------------------------
(* calculate_correlation on arbitrary histories of corr_window entries *)

CorrValues == {1, 2, 3}

InitCorrelation ==
    /\ pool = "P"
    /\ mean_error = Exact
    /\ window = 2
    /\ std_dev_multiplier = 1
    /\ corr_window \in 2..MaxCorrWindow
    /\ direction = 0
    /\ agent = [t \in {"token0", "token1"} |-> 1]
    /\ price_hist \in [1..corr_window -> CorrValues]
    /\ liquidity \in [1..corr_window -> CorrValues]
    /\ price_step = [i \in 1..corr_window |-> 0]
    /\ liquidity_step = [i \in 1..corr_window |-> 0]
    /\ price_window = <<>>
    /\ upper_band = <<>>
    /\ lower_band = <<>>
    /\ correlation_hist = <<>>
    /\ steps = 0
    /\ obs = NoObs
    /\ bands = <<Zero, Zero, Zero>>
    /\ correlation = Corr0
    /\ actions = <<>>
    /\ band_calls = <<>>
    /\ corr_calls = <<>>

ApplyCorrelation ==
    /\ corr_calls = <<>>
    /\ \E c \in {calculate_correlation(price_hist, liquidity, correlation_hist)} :
        /\ correlation_hist' = c.correlation_hist
        /\ corr_calls' = <<CorrCall("caller", price_hist, liquidity, correlation_hist, c)>>
    /\ UNCHANGED <<config, price_window, price_hist, liquidity, upper_band, lower_band,
                   steps, obs, bands, correlation, actions, band_calls, price_step,
                   liquidity_step>>

NextCorrelation == ApplyCorrelation

SpecCorrelation == InitCorrelation /\ [][NextCorrelation]_vars

(***************************************************************************)
(* A run on prices and liquidities that are floats of any value: the mean  *)
(* of corr_window copies of one may round above it, below it or not at     *)
(* all.  The window is longer than the correlation window, so the last     *)
(* corr_window prices can all be equal while the price is outside the      *)
(* bands.                                                                  *)
(***************************************************************************)
RoundingSteps == 3

InitRounding ==
    /\ pool = "P"
    /\ mean_error \in [price : [Prices -> MeanErrors],
                       liquidity : [Liquidities -> MeanErrors]]
    /\ window = 2 * 3
    /\ std_dev_multiplier = 1
    /\ corr_window = 3
    /\ direction \in Directions
    /\ agent = [t \in {"token0", "token1"} |-> 1]
    /\ InitState

PredictRounding ==
    /\ steps < RoundingSteps
    /\ \E p \in Prices, l \in Liquidities : predict(Observation1(p, l))

NextRounding == PredictRounding

SpecRounding == InitRounding /\ [][NextRounding]_vars

-----------------------------------------------------------------------------
(* Properties *)

Min(a, b) == IF a < b THEN a ELSE b

Full == Len(price_window) = window

\* the price observed in call k of predict
ObservedPrice(k) == price_hist[CHOOSE i \in DOMAIN price_hist : price_step[i] = k]

CurrentPrice == Float(obs.price[pool])

Buys == {i \in DOMAIN actions : actions[i].signal = "buy"}
Sells == {i \in DOMAIN actions : actions[i].signal = "sell"}

\* q tenths of a token are 30% of h tokens
Is30Percent(q, h) == 100 * q = 30 * (10 * h)

\* C1: with window = 20, each of the first 19 calls of predict returns an
\* empty list.
WarmUpGate == (window = DefaultWindow /\ steps <= DefaultWindow - 1) => actions = <<>>

\* C2: each call of predict appends the observed price once and the observed
\* liquidity once: after n calls price_hist and liquidity have n entries, and
\* entry k of price_hist was appended by call k.
OneAppendPerStep ==
    /\ Len(price_hist) = steps
    /\ Len(liquidity) = steps
    /\ Len(price_window) = Min(steps, window)
    /\ \A k \in DOMAIN price_hist : price_step[k] = k

\* C3: the price window never holds more than `window` prices; once `window`
\* prices have been appended it holds exactly `window`, the most recent ones
\* in arrival order.
WindowBound ==
    /\ Len(price_window) <= window
    /\ (Len(price_hist) >= window => Len(price_window) = window)
    /\ price_window = LastK(price_hist, window)

\* a price has been evicted, and the window differs from the head of the history
WindowBoundWitness ==
    /\ Len(price_hist) > window
    /\ Full
    /\ price_window # SubSeq(price_hist, 1, window)

\* C4: after every call of predict the two histories have the same length,
\* entry i of each was appended in the same call, and the entries of the
\* last call are that call's observed price and liquidity.
LockStep ==
    /\ Len(price_hist) = Len(liquidity)
    /\ liquidity_step = price_step
    /\ \A i \in DOMAIN price_hist :
          price_step[i] = steps =>
              /\ i \in DOMAIN liquidity
              /\ price_hist[i] = obs.price[pool]
              /\ liquidity[i] = obs.liquidity[obs.pools[1]]

\* two calls with different observations have been recorded
LockStepWitness ==
    /\ steps = 2
    /\ price_hist[1] # price_hist[Len(price_hist)]
    /\ liquidity[1] # liquidity[Len(liquidity)]

ScenarioAFourthStep ==
    /\ window = 3
    /\ std_dev_multiplier = DefaultMultiplier
    /\ direction >= 0
    /\ steps = 4
    /\ <<ObservedPrice(1), ObservedPrice(2), ObservedPrice(3), ObservedPrice(4)>>
          = <<9, 10, 11, 7>>
    /\ BelowMinusHalf(correlation)

\* C7, as claimed: the fourth call of scenario A returns exactly one intent,
\* with a zero base-asset leg and 30% of the quote-asset holding.
ScenarioAOneIntent ==
    ScenarioAFourthStep =>
        /\ Len(actions) = 1
        /\ actions[1].quantities[1] = 0
        /\ Is30Percent(actions[1].quantities[2], agent["token1"])

\* C7, amended: the fourth call of scenario A returns no intent: the bands are
\* computed from the window that already holds the fourth price, and 7 is not
\* below that lower band.
ScenarioANoIntent ==
    ScenarioAFourthStep =>
        /\ actions = <<>>
        /\ price_window[Len(price_window)] = 7
        /\ ~LessF(CurrentPrice, bands[1])

ScenarioAWitness == ScenarioAFourthStep /\ Full

\* C8: a call whose correlation is not below -0.5 (the 0.0 default included)
\* returns an empty list.
CorrelationGate ==
    (steps >= 1 /\ ~BelowMinusHalf(correlation)) => actions = <<>>

\* the price is outside the bands of a full window, the direction permits the
\* trade, and only the correlation holds it back
CorrelationGateWitness ==
    /\ steps >= 1
    /\ Full
    /\ direction = 0
    /\ LessF(CurrentPrice, bands[1]) \/ LessF(bands[3], CurrentPrice)
    /\ ~BelowMinusHalf(correlation)
    /\ actions = <<>>

\* C9, as claimed: every returned intent has exactly one nonzero leg: a buy
\* has X = 0 and Y # 0, a sell has X # 0 and Y = 0.
ExactlyOneNonzeroLeg ==
    /\ \A i \in Buys :
          actions[i].quantities[1] = 0 /\ actions[i].quantities[2] # 0
    /\ \A i \in Sells :
          actions[i].quantities[1] # 0 /\ actions[i].quantities[2] = 0

\* C9, amended: a buy has X = 0 and a sell has Y = 0; the other leg is nonzero
\* exactly if the agent holds some of the traded token.
AtMostOneNonzeroLeg ==
    /\ DOMAIN actions = Buys \cup Sells
    /\ \A i \in Buys :
          /\ actions[i].quantities[1] = 0
          /\ actions[i].quantities[2] # 0 <=> agent["token1"] # 0
    /\ \A i \in Sells :
          /\ actions[i].quantities[2] = 0
          /\ actions[i].quantities[1] # 0 <=> agent["token0"] # 0

\* one buy of a holding and one buy of nothing are both reachable; this is
\* the buy of a holding while the agent holds none of the other token
LegWitness ==
    /\ Buys # {}
    /\ agent["token1"] > 0
    /\ agent["token0"] = 0

\* C10: calculate_bollinger_bands returns (0.0, 0.0, 0.0) while the window
\* holds fewer than `window` prices; on a full window of nonzero standard
\* deviation it returns lower < middle < upper.
BandSentinel ==
    \A i \in DOMAIN band_calls :
        LET pw == band_calls[i].price_window
            ret == band_calls[i].ret
        IN  /\ Len(pw) < window => ret = <<Zero, Zero, Zero>>
            /\ (Len(pw) >= window /\ VarianceN2(pw) > 0) =>
                  LessF(ret[1], ret[2]) /\ LessF(ret[2], ret[3])

\* a call on a full window of nonzero standard deviation
BandSentinelWitness ==
    \E i \in DOMAIN band_calls :
        /\ Len(band_calls[i].price_window) = window
        /\ VarianceN2(band_calls[i].price_window) > 0
        /\ band_calls[i].ret # <<Zero, Zero, Zero>>

\* C11: calculate_correlation returns 0.0 whenever price_hist or liquidity has
\* fewer than corr_window entries, and then appends nothing to
\* correlation_hist.
CorrelationDefault ==
    \A i \in DOMAIN corr_calls :
        (Len(corr_calls[i].price_hist) < corr_window
            \/ Len(corr_calls[i].liquidity) < corr_window) =>
                corr_calls[i].ret = Corr0 /\ corr_calls[i].logged = <<>>

\* a call on too short a history, after which the log is still empty
CorrelationDefaultWitness ==
    /\ steps = 1
    /\ Len(price_hist) < corr_window
    /\ correlation_hist = <<>>
    /\ Len(corr_calls) = 2

\* the two rules fired in one step: a buy first, a sell second
BothFired ==
    /\ Len(actions) = 2
    /\ actions[1].signal = "buy"
    /\ actions[2].signal = "sell"

Idempotent ==
    /\ \A i \in DOMAIN band_calls :
          (i > 1 /\ band_calls[i].by = "caller") =>
              /\ band_calls[i].ret = band_calls[i - 1].ret
              /\ band_calls[i].price_window = band_calls[i - 1].price_window
    /\ band_calls # <<>> => band_calls[Len(band_calls)].price_window = price_window
    /\ \A i \in DOMAIN corr_calls :
          (i > 1 /\ corr_calls[i].by = "caller") =>
              /\ corr_calls[i].ret = corr_calls[i - 1].ret
              /\ corr_calls[i].price_hist = corr_calls[i - 1].price_hist
              /\ corr_calls[i].liquidity = corr_calls[i - 1].liquidity
    /\ corr_calls # <<>> =>
          /\ corr_calls[Len(corr_calls)].price_hist = price_hist
          /\ corr_calls[Len(corr_calls)].liquidity = liquidity

\* each computation has been called twice in a row on enough data, and each
\* call has grown its log
IdempotentWitness ==
    /\ \E i \in DOMAIN band_calls :
          /\ i > 1
          /\ band_calls[i].by = "caller" /\ band_calls[i - 1].by = "caller"
          /\ VarianceN2(band_calls[i].price_window) > 0
          /\ band_calls[i].logged_upper # <<>> /\ band_calls[i - 1].logged_upper # <<>>
    /\ \E i \in DOMAIN corr_calls :
          /\ i > 1
          /\ corr_calls[i].by = "caller" /\ corr_calls[i - 1].by = "caller"
          /\ ~corr_calls[i].ret.nan
          /\ corr_calls[i].logged # <<>> /\ corr_calls[i - 1].logged # <<>>

\* C14: once a step ends with the window full, every later step ends with the
\* window full, and none of its band computations sees a short window or
\* returns the sentinel.
WarmupOneWay ==
    [][Full =>
          /\ Full'
          /\ \A i \in DOMAIN band_calls' :
                /\ Len(band_calls'[i].price_window) = window
                /\ band_calls'[i].ret # <<Zero, Zero, Zero>>]_vars

\* a step that began with the window full has ended with it full
WarmupOneWayWitness ==
    /\ steps >= 2
    /\ Full
    /\ Len(band_calls[1].price_window) = window
    /\ Len(price_hist) >= window + 2

\* C15: on two histories of corr_window entries, both of nonzero variance, the
\* coefficient is a number in [-1, 1]: its covariance squared is at most the
\* product of the variances.
CorrelationBounds ==
    \A i \in DOMAIN corr_calls :
        LET x == LastK(corr_calls[i].price_hist, corr_window)
            y == LastK(corr_calls[i].liquidity, corr_window)
            r == corr_calls[i].ret
        IN  (Len(x) = corr_window /\ Len(y) = corr_window
                /\ VarianceN2(x) > 0 /\ VarianceN2(y) > 0) =>
                    ~r.nan /\ r.v > 0 /\ r.c * r.c <= r.v

\* a coefficient strictly between -1 and 0
CorrelationBoundsWitness ==
    \E i \in DOMAIN corr_calls :
        /\ ~corr_calls[i].ret.nan
        /\ corr_calls[i].ret.c < 0
        /\ corr_calls[i].ret.c * corr_calls[i].ret.c < corr_calls[i].ret.v

\* C16: the price and the liquidity a step records are those of the
\* configured pool, wherever that pool stands in the observation's list.
RecordsConfiguredPool ==
    steps >= 1 =>
        /\ price_hist[Len(price_hist)] = obs.price[pool]
        /\ liquidity[Len(liquidity)] = obs.liquidity[pool]

\* C17: the bands and the correlation the rules compare against are those of
\* the window and the histories that already hold the current observation,
\* whose price is the newest entry of the window.
UpdateThenCompute ==
    steps >= 1 =>
        /\ price_window[Len(price_window)] = obs.price[pool]
        /\ price_hist[Len(price_hist)] = obs.price[pool]
        /\ bands = calculate_bollinger_bands(price_window, <<>>, <<>>).ret
        /\ correlation = calculate_correlation(price_hist, liquidity, <<>>).ret
        /\ actions = IF Full
                      THEN decide(obs.price[pool], bands, correlation, agent, Tokens)
                      ELSE <<>>

\* a trade decided on bands that the current price has moved
UpdateThenComputeWitness ==
    /\ steps = 2
    /\ actions # <<>>
    /\ band_calls[1].ret # band_calls[2].ret
    /\ band_calls[1].ret # <<Zero, Zero, Zero>>

\* C18: a call of calculate_bollinger_bands appends its upper band to
\* upper_band and its lower band to lower_band when the window is full and
\* nothing when it is not; the two lists have the same length and stay empty
\* until the window has filled.
BandLogs ==
    /\ \A i \in DOMAIN band_calls :
          IF Len(band_calls[i].price_window) < window
          THEN band_calls[i].logged_upper = <<>> /\ band_calls[i].logged_lower = <<>>
          ELSE /\ band_calls[i].logged_upper = <<band_calls[i].ret[3]>>
               /\ band_calls[i].logged_lower = <<band_calls[i].ret[1]>>
    /\ Len(upper_band) = Len(lower_band)
    /\ ~Full => upper_band = <<>> /\ lower_band = <<>>

\* the step in which the window fills: a call that logs nothing, then a call
\* that logs its bands
BandLogsWitness ==
    /\ Len(band_calls) = 2
    /\ band_calls[1].logged_upper = <<>>
    /\ band_calls[2].logged_upper # <<>>
    /\ Len(upper_band) = 1

\* the last corr_window recorded prices, or liquidities, are all equal
ZeroVariance ==
    /\ Len(price_hist) >= corr_window
    /\ \/ VarianceN2(LastK(price_hist, corr_window)) = 0
       \/ VarianceN2(LastK(liquidity, corr_window)) = 0

\* C19: a step whose last corr_window recorded prices, or liquidities, are all
\* equal returns an empty list.
ZeroVarianceNoTrade ==
    (steps >= 1 /\ ZeroVariance) => actions = <<>>

====
